---- MODULE Spec2Model ----
(***************************************************************************)
(* A model of pyramid/config/predicates.py: the view/route predicate       *)
(* classes, their construction (__init__), text(), phash() and __call__.   *)
(*                                                                         *)
(* Python strings are sequences of one-character strings, so that          *)
(* splitting, stripping, sorting and formatting are computed character by  *)
(* character.  Every Python value is a record tagged by its field t.       *)
(***************************************************************************)
EXTENDS Integers, Sequences, FiniteSets, TLC

VARIABLES
  preds,    \* the registered predicate instances, by slot (None: none yet)
  raw,      \* the raw value each registered instance was constructed from
  outcome,  \* the most recent operation, its arguments and what it returned or raised
  info,     \* the route-matching info dict of the request being routed (None: none)
  applied,  \* the TraversePredicate instances that annotated the current info dict
  ncalls    \* how often a custom callable has been invoked

vars == <<preds, raw, outcome, info, applied, ncalls>>

(***************************************************************************)
(* Bounds of the model.                                                    *)
(***************************************************************************)
\* longest tuple of strings handed to a constructor
MaxItems == 2
\* how often custom callables are invoked in one behaviour
MaxCalls == 2
\* longest traversal path stored in a match-dict
MaxPath == 3

(***************************************************************************)
(* Python values.                                                          *)
(***************************************************************************)
None == [t |-> "none"]
Str(s) == [t |-> "str", v |-> s]
Tup(xs) == [t |-> "tuple", v |-> xs]
Bool(b) == [t |-> "bool", v |-> b]
Dict(f) == [t |-> "dict", v |-> f]
Raise(cls, args) == [t |-> "raise", exc |-> cls, args |-> args]
IsRaise(r) == r.t = "raise"

EmptyMap == [k \in {} |-> None]

\* d.get(k)
DictGet(d, k) == IF k \in DOMAIN d THEN d[k] ELSE None

\* d[k] = v
DictSet(d, k, v) == [x \in (DOMAIN d) \cup {k} |-> IF x = k THEN v ELSE d[x]]

\* bool(v)
Truthy(v) ==
  CASE v.t = "bool" -> v.v
    [] v.t = "none" -> FALSE
    [] v.t = "str" -> v.v # <<>>
    [] v.t = "tuple" -> v.v # <<>>
    [] OTHER -> TRUE

(***************************************************************************)
(* Characters and strings.                                                 *)
(***************************************************************************)
\* ord(c) of the characters the inputs are written in
Codepoint(c) ==
  CASE c = " " -> 32 [] c = "'" -> 39 [] c = "(" -> 40 [] c = ")" -> 41
    [] c = "," -> 44 [] c = "-" -> 45 [] c = "." -> 46 [] c = "/" -> 47
    [] c = "0" -> 48 [] c = "1" -> 49 [] c = "2" -> 50 [] c = "3" -> 51
    [] c = "4" -> 52 [] c = "5" -> 53 [] c = "6" -> 54 [] c = "7" -> 55
    [] c = "8" -> 56 [] c = "9" -> 57 [] c = ":" -> 58 [] c = "=" -> 61
    [] c = "A" -> 65 [] c = "D" -> 68 [] c = "E" -> 69 [] c = "G" -> 71
    [] c = "H" -> 72 [] c = "O" -> 79 [] c = "P" -> 80 [] c = "S" -> 83
    [] c = "T" -> 84 [] c = "X" -> 88 [] c = "\\" -> 92 [] c = "a" -> 97
    [] c = "b" -> 98 [] c = "c" -> 99 [] c = "d" -> 100 [] c = "x" -> 120
    [] c = "y" -> 121

\* a < b for two Python strings: lexicographic by code point
RECURSIVE StrLt(_, _)
StrLt(a, b) ==
  IF b = <<>> THEN FALSE
  ELSE IF a = <<>> THEN TRUE
  ELSE IF Head(a) = Head(b) THEN StrLt(Tail(a), Tail(b))
  ELSE Codepoint(Head(a)) < Codepoint(Head(b))

\* c in s, for a one-character c
Contains(s, c) == \E i \in 1..Len(s) : s[i] = c

\* index of the first c in s (s contains c)
FirstIndex(s, c) == CHOOSE i \in 1..Len(s) : s[i] = c /\ \A j \in 1..(i - 1) : s[j] # c

\* s.split(c, 1): one part when c is absent, two parts otherwise
Split1(s, c) ==
  IF Contains(s, c)
  THEN LET i == FirstIndex(s, c)
       IN <<SubSeq(s, 1, i - 1), SubSeq(s, i + 1, Len(s))>>
  ELSE <<s>>

IsSpace(c) == c \in {" ", "\t", "\n", "\r"}

RECURSIVE LStrip(_)
LStrip(s) == IF s # <<>> /\ IsSpace(Head(s)) THEN LStrip(Tail(s)) ELSE s

RECURSIVE RStrip(_)
RStrip(s) ==
  IF s # <<>> /\ IsSpace(s[Len(s)]) THEN RStrip(SubSeq(s, 1, Len(s) - 1)) ELSE s

\* s.strip()
Strip(s) == RStrip(LStrip(s))

\* sep.join(parts)
RECURSIVE Join(_, _)
Join(parts, sep) ==
  IF parts = <<>> THEN <<>>
  ELSE IF Len(parts) = 1 THEN parts[1]
  ELSE parts[1] \o sep \o Join(Tail(parts), sep)

\* insertion of x into an ascending list, after the elements not above it
RECURSIVE InsertSorted(_, _)
InsertSorted(x, xs) ==
  IF xs = <<>> THEN <<x>>
  ELSE IF StrLt(x, Head(xs)) THEN <<x>> \o xs
  ELSE <<Head(xs)>> \o InsertSorted(x, Tail(xs))

\* sorted(xs) for a list of strings
RECURSIVE Sorted(_)
Sorted(xs) == IF xs = <<>> THEN <<>> ELSE InsertSorted(xs[Len(xs)], Sorted(SubSeq(xs, 1, Len(xs) - 1)))

Range(xs) == {xs[i] : i \in 1..Len(xs)}

\* a list holding each element of the set S once
RECURSIVE SetToSeq(_)
SetToSeq(S) == IF S = {} THEN <<>> ELSE LET x == CHOOSE y \in S : TRUE IN <<x>> \o SetToSeq(S \ {x})

\* repr(s) of a string without quote characters: quoted, backslashes doubled
RECURSIVE EscapeBackslash(_)
EscapeBackslash(s) ==
  IF s = <<>> THEN <<>>
  ELSE (IF Head(s) = "\\" THEN <<"\\", "\\">> ELSE <<Head(s)>>) \o EscapeBackslash(Tail(s))

StrRepr(s) == <<"'">> \o EscapeBackslash(s) \o <<"'">>

\* repr(n) of an integer
Digit(d) == CASE d = 0 -> "0" [] d = 1 -> "1" [] d = 2 -> "2" [] d = 3 -> "3" [] d = 4 -> "4"
              [] d = 5 -> "5" [] d = 6 -> "6" [] d = 7 -> "7" [] d = 8 -> "8" [] d = 9 -> "9"

RECURSIVE NatRepr(_)
NatRepr(n) == IF n < 10 THEN <<Digit(n)>> ELSE NatRepr(n \div 10) \o <<Digit(n % 10)>>

IntRepr(n) == IF n < 0 THEN <<"-">> \o NatRepr(0 - n) ELSE NatRepr(n)

\* is_nonstr_iter(v)
is_nonstr_iter(v) == v.t = "tuple"

\* as_sorted_tuple(val)
as_sorted_tuple(val) ==
  LET items == IF is_nonstr_iter(val) THEN val.v ELSE <<val.v>>
  IN Tup(Sorted(SetToSeq(Range(items))))

(***************************************************************************)
(* The regular-expression engine, for the patterns the model uses: an      *)
(* ordinary character matches itself, "." any character, "\d" a digit and  *)
(* "\" before another character that character.  A pattern ending in a     *)
(* lone "\" and a ")" that closes nothing do not compile.                  *)
(***************************************************************************)
RECURSIVE ReParse(_, _)
ReParse(p, i) ==
  IF i > Len(p) THEN [ok |-> TRUE, toks |-> <<>>]
  ELSE IF p[i] = "\\" /\ i = Len(p)
  THEN [ok |-> FALSE, msg |-> "bad escape (end of pattern)", pos |-> i - 1]
  ELSE IF p[i] = ")"
  THEN [ok |-> FALSE, msg |-> "unbalanced parenthesis", pos |-> i - 1]
  ELSE LET esc == p[i] = "\\"
           tok == IF esc
                  THEN (IF p[i + 1] = "d" THEN [k |-> "digit"] ELSE [k |-> "lit", c |-> p[i + 1]])
                  ELSE (IF p[i] = "." THEN [k |-> "any"] ELSE [k |-> "lit", c |-> p[i]])
           rest == ReParse(p, IF esc THEN i + 2 ELSE i + 1)
       IN IF rest.ok THEN [ok |-> TRUE, toks |-> <<tok>> \o rest.toks] ELSE rest

\* re.compile(p): a pattern object, or re.error with the diagnostic in args[0]
re_compile(p) ==
  LET r == ReParse(p, 1)
  IN IF r.ok
     THEN [t |-> "pattern", pattern |-> p, toks |-> r.toks]
     ELSE Raise("re.error", <<r.msg \o " at position " \o ToString(r.pos)>>)

TokMatches(tok, c) ==
  CASE tok.k = "any" -> TRUE
    [] tok.k = "digit" -> c \in {"0", "1", "2", "3", "4", "5", "6", "7", "8", "9"}
    [] OTHER -> tok.c = c

\* pat.match(v): a match object, None, or TypeError when v is no string
re_match(pat, v) ==
  IF v.t # "str" THEN Raise("TypeError", <<"expected string or bytes-like object">>)
  ELSE IF /\ Len(pat.toks) <= Len(v.v)
          /\ \A i \in 1..Len(pat.toks) : TokMatches(pat.toks[i], v.v[i])
  THEN [t |-> "match"]
  ELSE None

\* '%s' % pat for a compiled pattern object: its repr where the runtime gives
\* pattern objects one, and the default object repr with its address otherwise
PatternStr(pat, env) ==
  IF env.patrepr
  THEN <<"r", "e", ".", "c", "o", "m", "p", "i", "l", "e", "(">> \o StrRepr(pat.pattern) \o <<")">>
  ELSE <<"<", "_", "s", "r", "e", ".", "S", "R", "E", "_", "P", "a", "t", "t", "e", "r", "n",
         " ", "o", "b", "j", "e", "c", "t", " ", "a", "t", " ", "0", "x">> \o env.addr \o <<">">>

(***************************************************************************)
(* XHRPredicate                                                            *)
(***************************************************************************)
XHRPredicate_init(val) == [t |-> "inst", cls |-> "XHRPredicate", val |-> Truthy(val)]

XHRPredicate_text(self) ==
  <<"x", "h", "r", " ", "=", " ">>
    \o (IF self.val THEN <<"T", "r", "u", "e">> ELSE <<"F", "a", "l", "s", "e">>)

XHRPredicate_call(self, context, request) == Bool(Truthy(request.is_xhr) = self.val)

(***************************************************************************)
(* RequestMethodPredicate                                                  *)
(***************************************************************************)
\* a variant that keeps the values as given: tuple(val) for as_sorted_tuple(val)
RequestMethodPredicate_init_unsorted(val) ==
  [t |-> "inst", cls |-> "RequestMethodPredicate",
   val |-> Tup(IF is_nonstr_iter(val) THEN val.v ELSE <<val.v>>)]

RequestMethodPredicate_init(val) ==
  [t |-> "inst", cls |-> "RequestMethodPredicate", val |-> as_sorted_tuple(val)]

RequestMethodPredicate_text(self) ==
  <<"r", "e", "q", "u", "e", "s", "t", "_", "m", "e", "t", "h", "o", "d", " ", "=", " ">>
    \o Join(self.val.v, <<",">>)

RequestMethodPredicate_call(self, context, request) ==
  Bool(request.method.v \in Range(self.val.v))

(***************************************************************************)
(* PathInfoPredicate                                                       *)
(***************************************************************************)
\* a variant that wraps the diagnostic in a message of its own
PathInfoPredicate_init_wrapped(val) ==
  LET compiled == re_compile(val.v)
  IN IF IsRaise(compiled)
     THEN Raise("ConfigurationError", <<"invalid path_info pattern: " \o compiled.args[1]>>)
     ELSE [t |-> "inst", cls |-> "PathInfoPredicate", orig |-> val, val |-> compiled]

PathInfoPredicate_init(val) ==
  LET compiled == re_compile(val.v)
  IN IF IsRaise(compiled)
     THEN Raise("ConfigurationError", <<compiled.args[1]>>)
     ELSE [t |-> "inst", cls |-> "PathInfoPredicate", orig |-> val, val |-> compiled]

PathInfoPredicate_text(self) ==
  <<"p", "a", "t", "h", "_", "i", "n", "f", "o", " ", "=", " ">> \o self.orig.v

PathInfoPredicate_call(self, context, request) ==
  LET m == re_match(self.val, request.upath_info)
  IN IF IsRaise(m) THEN m ELSE Bool(m # None)

(***************************************************************************)
(* RequestParamPredicate                                                   *)
(***************************************************************************)
RequestParamPredicate_init(val) ==
  LET parts == Split1(val.v, "=")
      name == IF Contains(val.v, "=") THEN Strip(parts[1]) ELSE val.v
      v == IF Contains(val.v, "=") THEN Str(Strip(parts[2])) ELSE None
  IN [t |-> "inst", cls |-> "RequestParamPredicate",
      text |-> IF v = None
               THEN <<"r", "e", "q", "u", "e", "s", "t", "_", "p", "a", "r", "a", "m", " ">> \o name
               ELSE <<"r", "e", "q", "u", "e", "s", "t", "_", "p", "a", "r", "a", "m", " ">> \o name
                      \o <<" ", "=", " ">> \o v.v,
      name |-> name, val |-> v]

RequestParamPredicate_text(self) == self.text

RequestParamPredicate_call(self, context, request) ==
  IF self.val = None
  THEN Bool(self.name \in DOMAIN request.params)
  ELSE Bool(DictGet(request.params, self.name) = self.val)

(***************************************************************************)
(* HeaderPredicate                                                         *)
(***************************************************************************)
HeaderPredicate_init(val, env) ==
  LET parts == Split1(val.v, ":")
      name == IF Contains(val.v, ":") THEN parts[1] ELSE val.v
      v == IF Contains(val.v, ":") THEN re_compile(parts[2]) ELSE None
  IN IF IsRaise(v)
     THEN Raise("ConfigurationError", <<v.args[1]>>)
     ELSE [t |-> "inst", cls |-> "HeaderPredicate",
           text |-> IF v = None
                    THEN <<"h", "e", "a", "d", "e", "r", " ">> \o name
                    ELSE <<"h", "e", "a", "d", "e", "r", " ">> \o name \o <<" ", "=", " ">>
                           \o PatternStr(v, env),
           name |-> name, val |-> v]

HeaderPredicate_text(self) == self.text

\* a variant without the check for an absent header
HeaderPredicate_call_unguarded(self, context, request) ==
  IF self.val = None
  THEN Bool(self.name \in DOMAIN request.headers)
  ELSE LET m == re_match(self.val, DictGet(request.headers, self.name))
       IN IF IsRaise(m) THEN m ELSE Bool(m # None)

HeaderPredicate_call(self, context, request) ==
  IF self.val = None
  THEN Bool(self.name \in DOMAIN request.headers)
  ELSE LET val == DictGet(request.headers, self.name)
       IN IF val = None
          THEN Bool(FALSE)
          ELSE LET m == re_match(self.val, val)
               IN IF IsRaise(m) THEN m ELSE Bool(m # None)

(***************************************************************************)
(* AcceptPredicate                                                         *)
(***************************************************************************)
AcceptPredicate_init(val) == [t |-> "inst", cls |-> "AcceptPredicate", val |-> val]

AcceptPredicate_text(self) == <<"a", "c", "c", "e", "p", "t", " ", "=", " ">> \o self.val.v

\* request.accept is the set of media types the negotiation result holds
AcceptPredicate_call(self, context, request) == Bool(self.val \in request.accept)

(***************************************************************************)
(* ContainmentPredicate and RequestTypePredicate.  An interface is         *)
(* [t |-> "iface", name |-> its dotted name]; a resource is the list of    *)
(* the interface sets its lineage provides, itself first.                  *)
(***************************************************************************)
\* '%s' % iface
IfaceStr(iface) == <<"<", "I", "n", "t", "e", "r", "f", "a", "c", "e", "C", "l", "a", "s", "s", " ">> \o iface.name \o <<">">>

\* config.maybe_dotted(val): a dotted name resolves to the object it names
maybe_dotted(val) == IF val.t = "str" THEN [t |-> "iface", name |-> val.v] ELSE val

\* find_interface(resource, iface): the first location of the lineage providing it
find_interface(resource, iface) ==
  IF resource.t = "resource" /\ \E i \in 1..Len(resource.lineage) : iface \in resource.lineage[i]
  THEN [t |-> "location",
        at |-> CHOOSE i \in 1..Len(resource.lineage) :
                 /\ iface \in resource.lineage[i]
                 /\ \A j \in 1..(i - 1) : iface \notin resource.lineage[j]]
  ELSE None

ContainmentPredicate_init(val) ==
  [t |-> "inst", cls |-> "ContainmentPredicate", val |-> maybe_dotted(val)]

ContainmentPredicate_text(self) == <<"c", "o", "n", "t", "a", "i", "n", "m", "e", "n", "t", " ", "=", " ">> \o IfaceStr(self.val)

ContainmentPredicate_call(self, context, request) ==
  LET ctx == IF request.context.t = "absent" THEN context ELSE request.context
  IN Bool(find_interface(ctx, self.val) # None)

RequestTypePredicate_init(val) == [t |-> "inst", cls |-> "RequestTypePredicate", val |-> val]

RequestTypePredicate_text(self) == <<"r", "e", "q", "u", "e", "s", "t", "_", "t", "y", "p", "e", " ", "=", " ">> \o IfaceStr(self.val)

RequestTypePredicate_call(self, context, request) == Bool(self.val \in request.provides)

(***************************************************************************)
(* MatchParamPredicate                                                     *)
(***************************************************************************)
\* a variant that does not sort the strings
MatchParamPredicate_init_unsorted(val) ==
  LET items == IF ~is_nonstr_iter(val) THEN <<val.v>> ELSE val.v
      reqs == [i \in 1..Len(items) |-> Split1(items[i], "=")]
  IN IF \E i \in 1..Len(reqs) : Len(reqs[i]) # 2
     THEN Raise("ValueError", <<"need more than 1 value to unpack">>)
     ELSE [t |-> "inst", cls |-> "MatchParamPredicate", val |-> items,
           reqs |-> [i \in 1..Len(reqs) |-> <<Strip(reqs[i][1]), Strip(reqs[i][2])>>]]

MatchParamPredicate_init(val) ==
  LET items == IF ~is_nonstr_iter(val) THEN <<val.v>> ELSE val.v
      sorted == Sorted(items)
      reqs == [i \in 1..Len(sorted) |-> Split1(sorted[i], "=")]
  IN IF \E i \in 1..Len(reqs) : Len(reqs[i]) # 2
     THEN Raise("ValueError", <<"need more than 1 value to unpack">>)
     ELSE [t |-> "inst", cls |-> "MatchParamPredicate", val |-> sorted,
           reqs |-> [i \in 1..Len(reqs) |-> <<Strip(reqs[i][1]), Strip(reqs[i][2])>>]]

MatchParamPredicate_text(self) ==
  <<"m", "a", "t", "c", "h", "_", "p", "a", "r", "a", "m", " ">>
    \o Join([i \in 1..Len(self.reqs) |-> self.reqs[i][1] \o <<"=">> \o self.reqs[i][2]], <<",">>)

MatchParamPredicate_call(self, context, request) ==
  Bool(\A i \in 1..Len(self.reqs) :
         DictGet(request.matchdict, self.reqs[i][1]) = Str(self.reqs[i][2]))

(***************************************************************************)
(* CustomPredicate.  A callable is [t |-> "func", id, hash, text, repr,    *)
(* ret]: its identity, its hash(), its __text__ attribute (None without),  *)
(* its repr() and what it returns when called.                             *)
(***************************************************************************)
\* object_description(obj) of an object that is no function, class or module
object_description(obj) == <<"o", "b", "j", "e", "c", "t", " ">> \o obj.repr

CustomPredicate_init(func) == [t |-> "inst", cls |-> "CustomPredicate", func |-> func]

CustomPredicate_text(self) ==
  LET default == <<"c", "u", "s", "t", "o", "m", " ", "p", "r", "e", "d", "i", "c", "a", "t", "e", ":", " ">> \o object_description(self.func)
  IN IF self.func.text # None THEN self.func.text.v ELSE default

\* a variant keyed on the identity of the callable: id() for hash()
CustomPredicate_phash_by_id(self) == <<"c", "u", "s", "t", "o", "m", ":">> \o <<self.func.id>>

CustomPredicate_phash(self) == <<"c", "u", "s", "t", "o", "m", ":">> \o IntRepr(self.func.hash)

CustomPredicate_call(self, context, request) == Bool(self.func.ret)

(***************************************************************************)
(* The route-pattern compiler and the traversal-path splitter that         *)
(* TraversePredicate calls.  A pattern is its "/"-separated segments: a    *)
(* literal, ":name" (one segment from the match-dict) or "*name" (the      *)
(* remainder: a string or a tuple of segments from the match-dict).        *)
(***************************************************************************)
\* s.split(c)
RECURSIVE SplitAll(_, _)
SplitAll(s, c) ==
  IF Contains(s, c)
  THEN LET i == FirstIndex(s, c)
       IN <<SubSeq(s, 1, i - 1)>> \o SplitAll(SubSeq(s, i + 1, Len(s)), c)
  ELSE <<s>>

\* the elements of xs that are not the empty string
RECURSIVE NonEmpty(_)
NonEmpty(xs) ==
  IF xs = <<>> THEN <<>>
  ELSE (IF Head(xs) = <<>> THEN <<>> ELSE <<Head(xs)>>) \o NonEmpty(Tail(xs))

\* URL-quoting of a path segment: a space and, unless safe, a slash are escaped
RECURSIVE quote_path_segment(_, _)
quote_path_segment(s, slashSafe) ==
  IF s = <<>> THEN <<>>
  ELSE (CASE Head(s) = " " -> <<"%", "2", "0">>
          [] Head(s) = "/" /\ ~slashSafe -> <<"%", "2", "F">>
          [] OTHER -> <<Head(s)>>) \o quote_path_segment(Tail(s), slashSafe)

\* URL-unquoting of a path segment
RECURSIVE url_unquote(_)
url_unquote(s) ==
  IF s = <<>> THEN <<>>
  ELSE IF Len(s) >= 3 /\ SubSeq(s, 1, 3) = <<"%", "2", "0">>
  THEN <<" ">> \o url_unquote(SubSeq(s, 4, Len(s)))
  ELSE IF Len(s) >= 3 /\ SubSeq(s, 1, 3) = <<"%", "2", "F">>
  THEN <<"/">> \o url_unquote(SubSeq(s, 4, Len(s)))
  ELSE <<Head(s)>> \o url_unquote(Tail(s))

\* str(v) of a tuple of strings
TupleStr(xs) ==
  <<"(">> \o Join([i \in 1..Len(xs) |-> StrRepr(xs[i])], <<",", " ">>)
    \o (IF Len(xs) = 1 THEN <<",", ")">> ELSE <<")">>)

RouteSegment(seg) ==
  CASE Head(seg) = ":" -> [k |-> "name", name |-> Tail(seg)]
    [] Head(seg) = "*" -> [k |-> "star", name |-> Tail(seg)]
    [] OTHER -> [k |-> "lit", text |-> seg]

\* _compile_route(pattern)[1]: the generator, as the segments it fills
compile_route_generator(pattern) ==
  LET segs == NonEmpty(SplitAll(pattern, "/"))
  IN [t |-> "generator", segs |-> [i \in 1..Len(segs) |-> RouteSegment(segs[i])]]

FillSegment(seg, m) ==
  CASE seg.k = "lit" -> quote_path_segment(seg.text, TRUE)
    [] seg.k = "star" ->
         (IF m[seg.name].t = "tuple"
          THEN Join([i \in 1..Len(m[seg.name].v) |->
                       quote_path_segment(m[seg.name].v[i], FALSE)], <<"/">>)
          ELSE quote_path_segment(m[seg.name].v, TRUE))
    [] OTHER ->
         (IF m[seg.name].t = "tuple"
          THEN quote_path_segment(TupleStr(m[seg.name].v), FALSE)
          ELSE quote_path_segment(m[seg.name].v, FALSE))

\* generator(m): the URL-quoted path, or KeyError for a placeholder m lacks
tgenerate(gen, m) ==
  IF \E i \in 1..Len(gen.segs) : gen.segs[i].k # "lit" /\ gen.segs[i].name \notin DOMAIN m
  THEN Raise("KeyError", <<"placeholder">>)
  ELSE Str(<<"/">> \o Join([i \in 1..Len(gen.segs) |-> FillSegment(gen.segs[i], m)], <<"/">>))

\* traversal_path(path): the decoded segments of a URL-quoted path
traversal_path(path) ==
  LET segs == NonEmpty(SplitAll(path.v, "/"))
  IN Tup([i \in 1..Len(segs) |-> url_unquote(segs[i])])

(***************************************************************************)
(* TraversePredicate.  Its __call__ receives the route-matching info dict  *)
(* as context and changes it in place: the result is what it returns and   *)
(* the info dict afterwards.                                               *)
(***************************************************************************)
KeyTraverse == <<"t", "r", "a", "v", "e", "r", "s", "e">>
KeyMatch == <<"m", "a", "t", "c", "h">>

TraversePredicate_init(val) ==
  [t |-> "inst", cls |-> "TraversePredicate",
   tgenerate |-> compile_route_generator(val.v), val |-> val]

TraversePredicate_text(self) == <<"t", "r", "a", "v", "e", "r", "s", "e", " ", "m", "a", "t", "c", "h", "d", "i", "c", "t", " ", "p", "s", "e", "u", "d", "o", "-", "p", "r", "e", "d", "i", "c", "a", "t", "e">>

TraversePredicate_phash(self) == <<>>

\* a variant whose annotating branch lacks the final return True
TraversePredicate_call_no_return(self, context, request) ==
  IF KeyTraverse \in DOMAIN context.v
  THEN [ret |-> Bool(TRUE), ctx |-> context]
  ELSE IF KeyMatch \notin DOMAIN context.v
  THEN [ret |-> Raise("KeyError", <<"match">>), ctx |-> context]
  ELSE LET m == context.v[KeyMatch]
           tvalue == tgenerate(self.tgenerate, m.v)
       IN IF IsRaise(tvalue)
          THEN [ret |-> tvalue, ctx |-> context]
          ELSE [ret |-> None,
                ctx |-> Dict(DictSet(context.v, KeyMatch,
                                     Dict(DictSet(m.v, KeyTraverse, traversal_path(tvalue)))))]

\* a variant that stores a new match-dict holding the traversal path alone
TraversePredicate_call_new_match(self, context, request) ==
  IF KeyTraverse \in DOMAIN context.v
  THEN [ret |-> Bool(TRUE), ctx |-> context]
  ELSE IF KeyMatch \notin DOMAIN context.v
  THEN [ret |-> Raise("KeyError", <<"match">>), ctx |-> context]
  ELSE LET m == context.v[KeyMatch]
           tvalue == tgenerate(self.tgenerate, m.v)
       IN IF IsRaise(tvalue)
          THEN [ret |-> tvalue, ctx |-> context]
          ELSE [ret |-> Bool(TRUE),
                ctx |-> Dict(DictSet(context.v, KeyMatch,
                                     Dict(KeyTraverse :> traversal_path(tvalue))))]

TraversePredicate_call(self, context, request) ==
  IF KeyTraverse \in DOMAIN context.v
  THEN [ret |-> Bool(TRUE), ctx |-> context]
  ELSE IF KeyMatch \notin DOMAIN context.v
  THEN [ret |-> Raise("KeyError", <<"match">>), ctx |-> context]
  ELSE LET m == context.v[KeyMatch]
           tvalue == tgenerate(self.tgenerate, m.v)
       IN IF IsRaise(tvalue)
          THEN [ret |-> tvalue, ctx |-> context]
          ELSE [ret |-> Bool(TRUE),
                ctx |-> Dict(DictSet(context.v, KeyMatch,
                                     Dict(DictSet(m.v, KeyTraverse, traversal_path(tvalue)))))]

(***************************************************************************)
(* The classes by predicate name, and the methods by class.                *)
(***************************************************************************)
Kinds == {"xhr", "request_method", "path_info", "request_param", "header", "accept",
          "containment", "request_type", "match_param", "custom", "traverse"}

\* cls(val, config)
New(kind, val, env) ==
  CASE kind = "xhr" -> XHRPredicate_init(val)
    [] kind = "request_method" -> RequestMethodPredicate_init(val)
    [] kind = "path_info" -> PathInfoPredicate_init(val)
    [] kind = "request_param" -> RequestParamPredicate_init(val)
    [] kind = "header" -> HeaderPredicate_init(val, env)
    [] kind = "accept" -> AcceptPredicate_init(val)
    [] kind = "containment" -> ContainmentPredicate_init(val)
    [] kind = "request_type" -> RequestTypePredicate_init(val)
    [] kind = "match_param" -> MatchParamPredicate_init(val)
    [] kind = "custom" -> CustomPredicate_init(val)
    [] kind = "traverse" -> TraversePredicate_init(val)

\* self.text()
Text(self) ==
  CASE self.cls = "XHRPredicate" -> XHRPredicate_text(self)
    [] self.cls = "RequestMethodPredicate" -> RequestMethodPredicate_text(self)
    [] self.cls = "PathInfoPredicate" -> PathInfoPredicate_text(self)
    [] self.cls = "RequestParamPredicate" -> RequestParamPredicate_text(self)
    [] self.cls = "HeaderPredicate" -> HeaderPredicate_text(self)
    [] self.cls = "AcceptPredicate" -> AcceptPredicate_text(self)
    [] self.cls = "ContainmentPredicate" -> ContainmentPredicate_text(self)
    [] self.cls = "RequestTypePredicate" -> RequestTypePredicate_text(self)
    [] self.cls = "MatchParamPredicate" -> MatchParamPredicate_text(self)
    [] self.cls = "CustomPredicate" -> CustomPredicate_text(self)
    [] self.cls = "TraversePredicate" -> TraversePredicate_text(self)

\* self.phash(): the class attribute phash is text, but for two classes
Phash(self) ==
  CASE self.cls = "CustomPredicate" -> CustomPredicate_phash(self)
    [] self.cls = "TraversePredicate" -> TraversePredicate_phash(self)
    [] OTHER -> Text(self)

\* self(context, request): what it returns or raises, the context afterwards,
\* and how often it invoked a custom callable
Call(self, context, request) ==
  CASE self.cls = "TraversePredicate" ->
         [called |-> 0] @@ TraversePredicate_call(self, context, request)
    [] self.cls = "CustomPredicate" ->
         [ret |-> CustomPredicate_call(self, context, request), ctx |-> context, called |-> 1]
    [] OTHER ->
         [ret |-> CASE self.cls = "XHRPredicate" -> XHRPredicate_call(self, context, request)
                    [] self.cls = "RequestMethodPredicate" ->
                         RequestMethodPredicate_call(self, context, request)
                    [] self.cls = "PathInfoPredicate" ->
                         PathInfoPredicate_call(self, context, request)
                    [] self.cls = "RequestParamPredicate" ->
                         RequestParamPredicate_call(self, context, request)
                    [] self.cls = "HeaderPredicate" ->
                         HeaderPredicate_call(self, context, request)
                    [] self.cls = "AcceptPredicate" ->
                         AcceptPredicate_call(self, context, request)
                    [] self.cls = "ContainmentPredicate" ->
                         ContainmentPredicate_call(self, context, request)
                    [] self.cls = "RequestTypePredicate" ->
                         RequestTypePredicate_call(self, context, request)
                    [] self.cls = "MatchParamPredicate" ->
                         MatchParamPredicate_call(self, context, request),
          ctx |-> context, called |-> 0]

(***************************************************************************)
(* The values the operations are applied to.                               *)
(***************************************************************************)
Slots == {"p", "q"}

\* the non-empty tuples of at most MaxItems elements of S
Tuples(S) == UNION {[1..n -> S] : n \in 1..MaxItems}

Methods == {<<"G", "E", "T">>, <<"H", "E", "A", "D">>, <<"P", "O", "S", "T">>}

Patterns == {<<"/">>, <<"/", "\\", "d">>, <<"a", ".">>, <<"\\">>, <<"a", ")">>}

\* well-formed "key=value" strings, and one without "="
ParamStrings == {<<"a", " ", "=", "1">>, <<" ", "b", "=", "2">>}

BareKey == <<"b">>

IFoo == [t |-> "iface", name |-> <<"x", ".", "I", "F", "o", "o">>]
IBar == [t |-> "iface", name |-> <<"x", ".", "I", "B", "a", "r">>]

Funcs ==
  {[t |-> "func", id |-> "f", hash |-> 1, text |-> None, repr |-> <<"f">>, ret |-> TRUE],
   [t |-> "func", id |-> "g", hash |-> 1, text |-> Str(<<"l", "a", "b", "e", "l">>), repr |-> <<"g">>, ret |-> FALSE],
   [t |-> "func", id |-> "h", hash |-> -12, text |-> None, repr |-> <<"f">>, ret |-> TRUE],
   [t |-> "func", id |-> "k", hash |-> 12, text |-> Str(<<"l", "a", "b", "e", "l">>), repr |-> <<"k">>, ret |-> FALSE]}

RawValues(kind) ==
  CASE kind = "xhr" -> {Bool(TRUE), Bool(FALSE), None}
    [] kind = "request_method" -> {Str(m) : m \in Methods} \cup {Tup(ms) : ms \in Tuples(Methods)}
    [] kind = "path_info" -> {Str(x) : x \in Patterns}
    [] kind = "request_param" -> {Str(x) : x \in {<<"a">>, <<"a", "=", "1">>, <<"a", " ", "=", " ", " ", "1">>, <<"a", "=", "1", "=", "2">>}}
    [] kind = "header" -> {Str(x) : x \in {<<"X">>, <<"X", ":", "a">>, <<"X", ":", "\\", "d">>, <<"X", ":", "\\">>, <<"X", ":", "a", ":", ")">>}}
    [] kind = "accept" -> {Str(<<"a", "/", "b">>), Str(<<"a", "/", "c">>)}
    [] kind = "containment" -> {Str(<<"x", ".", "I", "F", "o", "o">>), IBar}
    [] kind = "request_type" -> {IFoo, IBar}
    [] kind = "match_param" ->
         {Str(x) : x \in ParamStrings \cup {BareKey}}
           \cup {Tup(xs) : xs \in Tuples(ParamStrings)}
           \cup {Tup(<<x, BareKey>>) : x \in ParamStrings}
    [] kind = "custom" -> Funcs
    [] kind = "traverse" -> {Str(x) : x \in {<<"/", "1", "/", ":", "a">>, <<"/", ":", "a", "/", "*", "t", "r", "a", "v", "e", "r", "s", "e">>, <<"/", "*", "t", "r", "a", "v", "e", "r", "s", "e">>, <<"/", "1">>}}

\* what the runtime decides when a pattern object is formatted: whether pattern
\* objects have a repr of their own, and the address of the object
Envs == [patrepr : BOOLEAN, addr : {<<"7", "f", "0", "1">>, <<"7", "f", "0", "2">>}]

Absent == [t |-> "absent"]

\* a request without any of the data the predicates look for
BareRequest ==
  [is_xhr |-> Bool(FALSE), method |-> Str(<<"G", "E", "T">>), upath_info |-> Str(<<"/", "n", "1">>),
   params |-> EmptyMap, headers |-> EmptyMap, accept |-> {}, provides |-> {},
   matchdict |-> EmptyMap, context |-> Absent]

Requests ==
  {BareRequest,
   [BareRequest EXCEPT !.is_xhr = Bool(TRUE)],
   [BareRequest EXCEPT !.method = Str(<<"P", "O", "S", "T">>)],
   [BareRequest EXCEPT !.upath_info = Str(<<"/", "1", "2">>)],
   [BareRequest EXCEPT !.params = (<<"a">> :> Str(<<"1">>))],
   [BareRequest EXCEPT !.params = (<<"a">> :> Str(<<"2">>))],
   [BareRequest EXCEPT !.headers = (<<"X">> :> Str(<<"a", "b", "c">>))],
   [BareRequest EXCEPT !.headers = (<<"X">> :> Str(<<"1">>))],
   [BareRequest EXCEPT !.accept = {Str(<<"a", "/", "b">>)}],
   [BareRequest EXCEPT !.provides = {IFoo}],
   [BareRequest EXCEPT !.matchdict = (<<"a">> :> Str(<<"1">>))],
   [BareRequest EXCEPT !.matchdict = (<<"a">> :> Str(<<"1">>)) @@ (<<"b">> :> Str(<<"2">>))],
   [BareRequest EXCEPT !.matchdict = (<<"b">> :> Str(<<"2">>))],
   [BareRequest EXCEPT !.context = [t |-> "resource", lineage |-> <<{}, {IFoo}>>]],
   [BareRequest EXCEPT !.context = [t |-> "resource", lineage |-> <<{IBar}>>]]}

MatchDicts ==
  {EmptyMap,
   <<"a">> :> Str(<<"x">>),
   <<"a">> :> Str(<<"x", " ", "y">>),
   (<<"a">> :> Str(<<"x">>)) @@ (KeyTraverse :> Tup(<<<<"y">>>>)),
   KeyTraverse :> Tup(<<<<"y">>>>),
   KeyTraverse :> Str(<<"y">>)}

\* the info dicts route resolution hands over
InfoDicts ==
  {Dict(EmptyMap), Dict(KeyTraverse :> Str(<<"a", "b", "c">>))}
    \cup {Dict(KeyMatch :> Dict(m)) : m \in MatchDicts}
    \cup {Dict((KeyMatch :> Dict(m)) @@ (<<"r", "o", "u", "t", "e">> :> Str(<<"r">>))) : m \in MatchDicts}
    \cup {Dict((KeyMatch :> Dict(m)) @@ (KeyTraverse :> Str(<<"a", "b", "c">>))) : m \in MatchDicts}

(***************************************************************************)
(* The operations.                                                         *)
(***************************************************************************)
Init ==
  /\ preds = [s \in Slots |-> None]
  /\ raw = [s \in Slots |-> None]
  /\ outcome = [op |-> "start"]
  /\ info = None
  /\ applied = {}
  /\ ncalls = 0

\* the length of the traversal path an info dict holds in its match-dict
TraverseLen(ctx) ==
  IF KeyMatch \notin DOMAIN ctx.v THEN 0
  ELSE IF KeyTraverse \notin DOMAIN ctx.v[KeyMatch].v THEN 0
  ELSE IF ctx.v[KeyMatch].v[KeyTraverse].t # "tuple" THEN 0
  ELSE Len(ctx.v[KeyMatch].v[KeyTraverse].v)

\* predicates are constructed at configuration time, before requests are served
Configuring == info = None /\ ncalls = 0

\* registration: an instance of the class of kind k is constructed from a raw
\* value and kept in slot s; when the constructor raises, nothing is kept
Construct(S, K) ==
  \E s \in S, k \in K :
    \E val \in RawValues(k), env \in IF k = "header" THEN Envs ELSE {CHOOSE e \in Envs : TRUE} :
      LET r == New(k, val, env)
      IN /\ Configuring
         /\ preds' = IF IsRaise(r) THEN preds ELSE [preds EXCEPT ![s] = r]
         /\ raw' = IF IsRaise(r) THEN raw ELSE [raw EXCEPT ![s] = val]
         /\ outcome' = [op |-> "construct", slot |-> s, kind |-> k, arg |-> val, ret |-> r]
         /\ UNCHANGED <<info, applied, ncalls>>

DoText(S) ==
  \E s \in S :
    /\ preds[s] # None
    /\ outcome' = [op |-> "text", slot |-> s, called |-> 0, ret |-> Str(Text(preds[s]))]
    /\ UNCHANGED <<preds, raw, info, applied, ncalls>>

DoPhash(S) ==
  \E s \in S :
    /\ preds[s] # None
    /\ outcome' = [op |-> "phash", slot |-> s, called |-> 0, ret |-> Str(Phash(preds[s]))]
    /\ UNCHANGED <<preds, raw, info, applied, ncalls>>

\* the dispatcher evaluates a view predicate on a request
DoCall(S) ==
  \E s \in S, req \in Requests :
    /\ preds[s] # None
    /\ preds[s].cls # "TraversePredicate"
    /\ LET e == Call(preds[s], None, req)
       IN /\ ncalls + e.called <= MaxCalls
          /\ ncalls' = ncalls + e.called
          /\ outcome' = [op |-> "call", slot |-> s, request |-> req, context |-> None,
                         called |-> e.called, ret |-> e.ret]
    /\ UNCHANGED <<preds, raw, info, applied>>

\* route resolution evaluates a route's traverse pseudo-predicate, on the info
\* dict of a new request (fresh) or once more on the current one
DoTraverse(S) ==
  \E s \in S, fresh \in BOOLEAN :
    \E context \in IF fresh THEN InfoDicts ELSE {info} \ {None} :
      /\ preds[s] # None
      /\ preds[s].cls = "TraversePredicate"
      /\ LET e == Call(preds[s], context, BareRequest)
         IN /\ TraverseLen(e.ctx) <= MaxPath
            /\ info' = e.ctx
            /\ applied' = (IF fresh THEN {} ELSE applied)
                            \cup (IF IsRaise(e.ret) THEN {} ELSE {preds[s]})
            /\ outcome' = [op |-> "call", slot |-> s, request |-> BareRequest,
                           context |-> context, called |-> e.called,
                           again |-> ~fresh /\ preds[s] \in applied, ret |-> e.ret]
      /\ UNCHANGED <<preds, raw, ncalls>>

\* one registration, every predicate class: configuration, then evaluation
Next ==
  \/ Construct({"p"}, Kinds)
  \/ DoText({"p"})
  \/ DoPhash({"p"})
  \/ DoCall({"p"})
  \/ DoTraverse({"p"})

Spec == Init /\ [][Next]_vars

\* two registrations of the classes of K, whose text() and phash() are compared
NextPair(K) ==
  \/ Construct(Slots, K)
  \/ DoText(Slots)
  \/ DoPhash(Slots)

SpecMethod == Init /\ [][NextPair({"request_method"})]_vars

SpecMatch == Init /\ [][NextPair({"match_param"})]_vars

SpecHeader == Init /\ [][NextPair({"header"})]_vars

\* two registrations of custom callables, compared and evaluated
NextCustom ==
  \/ NextPair({"custom"})
  \/ DoCall(Slots)

SpecCustom == Init /\ [][NextCustom]_vars

(***************************************************************************)
(* Notions the properties are stated in.                                   *)
(***************************************************************************)
\* the strings of a raw "one or many strings" value, in the order given
Items(val) == IF val.t = "tuple" THEN val.v ELSE <<val.v>>

Count(xs, x) == Cardinality({i \in 1..Len(xs) : xs[i] = x})

\* ys is xs in another order
IsPermutation(xs, ys) ==
  /\ Len(xs) = Len(ys)
  /\ \A x \in Range(xs) \cup Range(ys) : Count(xs, x) = Count(ys, x)

IsAscending(xs) == \A i \in 1..Len(xs), j \in 1..Len(xs) : i < j => ~StrLt(xs[j], xs[i])

\* the elements of the set S, each once, in ascending order
AscendingOf(S) ==
  CHOOSE t \in [1..Cardinality(S) -> S] :
    Range(t) = S /\ \A i \in 1..Len(t), j \in 1..Len(t) : i < j => StrLt(t[i], t[j])

\* the list xs in ascending order
AscendingOrder(xs) ==
  CHOOSE t \in [1..Len(xs) -> Range(xs)] : IsPermutation(xs, t) /\ IsAscending(t)

\* the whitespace-trimmed "<key>=<value>" of a "key=value" string
TrimmedPair(x) == Strip(Split1(x, "=")[1]) \o <<"=">> \o Strip(Split1(x, "=")[2])

TrimmedPairs(xs) == [i \in 1..Len(xs) |-> TrimmedPair(xs[i])]

\* the pattern a path_info or header value carries, if any
HasPattern(kind, val) == kind = "path_info" \/ (kind = "header" /\ Contains(val.v, ":"))

PatternOf(kind, val) ==
  IF kind = "path_info" THEN val.v ELSE SubSeq(val.v, FirstIndex(val.v, ":") + 1, Len(val.v))

Returned(op, cls) ==
  /\ outcome.op = op
  /\ preds[outcome.slot].t = "inst"
  /\ preds[outcome.slot].cls = cls

(***************************************************************************)
(* C1: constructing a PathInfoPredicate, or a HeaderPredicate from         *)
(* 'name:pattern', with a pattern that does not compile raises             *)
(* ConfigurationError carrying the regex compiler's diagnostic unchanged;  *)
(* no instance is registered from such a value, and no evaluation raises   *)
(* the compile failure later.                                              *)
(***************************************************************************)
C1_CompileFailureRaisesConfigurationError ==
  /\ (/\ outcome.op = "construct"
      /\ HasPattern(outcome.kind, outcome.arg)
      /\ IsRaise(re_compile(PatternOf(outcome.kind, outcome.arg))))
       => /\ outcome.ret = Raise("ConfigurationError",
                                 <<re_compile(PatternOf(outcome.kind, outcome.arg)).args[1]>>)
          /\ raw[outcome.slot] # outcome.arg
  /\ \A s \in Slots :
       (preds[s] # None /\ preds[s].cls \in {"PathInfoPredicate", "HeaderPredicate"})
         => preds[s].val = None \/ preds[s].val.t = "pattern"
  /\ (outcome.op = "call" /\ IsRaise(outcome.ret))
       => outcome.ret.exc \notin {"ConfigurationError", "re.error"}

C1_Witness ==
  /\ outcome.op = "construct"
  /\ outcome.kind = "header"
  /\ outcome.arg = Str(<<"X", ":", "\\">>)
  /\ IsRaise(outcome.ret)

(***************************************************************************)
(* C2: the regex compile failure of PathInfoPredicate and HeaderPredicate  *)
(* is the only way a construction raises.                                  *)
(***************************************************************************)
C2_OnlyCompileFailureRaises ==
  (outcome.op = "construct" /\ IsRaise(outcome.ret))
    => /\ outcome.kind \in {"path_info", "header"}
       /\ outcome.ret.exc = "ConfigurationError"

(***************************************************************************)
(* C3: evaluating a HeaderPredicate on a request without the header, a     *)
(* RequestParamPredicate on a request without the parameter, or a          *)
(* MatchParamPredicate on a match-dict lacking one of its keys returns     *)
(* False and raises nothing.                                               *)
(***************************************************************************)
C3_AbsentDataIsFalse ==
  /\ (Returned("call", "HeaderPredicate")
        /\ preds[outcome.slot].name \notin DOMAIN outcome.request.headers)
       => outcome.ret = Bool(FALSE)
  /\ (Returned("call", "RequestParamPredicate")
        /\ preds[outcome.slot].name \notin DOMAIN outcome.request.params)
       => outcome.ret = Bool(FALSE)
  /\ (Returned("call", "MatchParamPredicate")
        /\ \E i \in 1..Len(preds[outcome.slot].reqs) :
             preds[outcome.slot].reqs[i][1] \notin DOMAIN outcome.request.matchdict)
       => outcome.ret = Bool(FALSE)

C3_Witness ==
  /\ Returned("call", "HeaderPredicate")
  /\ preds[outcome.slot].val # None
  /\ outcome.request.headers = EmptyMap
  /\ outcome.ret = Bool(FALSE)

(***************************************************************************)
(* C4: text() and phash() of a RequestMethodPredicate are                  *)
(* 'request_method = ' followed by the distinct methods it was given in    *)
(* ascending order, joined by commas; two instances given the same set of  *)
(* methods, in any order and with any repetition, return the same value.   *)
(***************************************************************************)
C4_RequestMethodTextIsCanonical ==
  (Returned("text", "RequestMethodPredicate") \/ Returned("phash", "RequestMethodPredicate"))
    => /\ outcome.ret.v =
            <<"r", "e", "q", "u", "e", "s", "t", "_", "m", "e", "t", "h", "o", "d", " ", "=", " ">>
              \o Join(AscendingOf(Range(Items(raw[outcome.slot]))), <<",">>)
       /\ \A s \in Slots :
            (preds[s] # None /\ Range(Items(raw[s])) = Range(Items(raw[outcome.slot])))
              => outcome.ret.v = Text(preds[s]) /\ outcome.ret.v = Phash(preds[s])

C4_Witness ==
  /\ Returned("text", "RequestMethodPredicate")
  /\ outcome.slot = "p"
  /\ raw["p"] = Tup(<<<<"H", "E", "A", "D">>, <<"G", "E", "T">>>>)
  /\ raw["q"] = Tup(<<<<"G", "E", "T">>, <<"H", "E", "A", "D">>>>)
  /\ outcome.ret = Str(<<"r", "e", "q", "u", "e", "s", "t", "_", "m", "e", "t", "h", "o", "d", " ", "=", " ", "G", "E", "T", ",", "H", "E", "A", "D">>)

(***************************************************************************)
(* C5, as claimed: text() and phash() of a MatchParamPredicate are         *)
(* 'match_param ' followed by the whitespace-trimmed '<key>=<value>' pairs *)
(* in ascending sorted order, joined by commas.                            *)
(***************************************************************************)
C5_TrimmedPairsAscending ==
  (Returned("text", "MatchParamPredicate") \/ Returned("phash", "MatchParamPredicate"))
    => outcome.ret.v =
         <<"m", "a", "t", "c", "h", "_", "p", "a", "r", "a", "m", " ">>
           \o Join(AscendingOrder(TrimmedPairs(Items(raw[outcome.slot]))), <<",">>)

(***************************************************************************)
(* C5, amended: text() and phash() of a MatchParamPredicate are            *)
(* 'match_param ' followed by the whitespace-trimmed '<key>=<value>'       *)
(* pairs, joined by commas, in the ascending sorted order of the strings   *)
(* as supplied (untrimmed); two instances given the same strings in        *)
(* different orders return the same value.                                 *)
(***************************************************************************)
C5_TrimmedPairsInRawOrder ==
  (Returned("text", "MatchParamPredicate") \/ Returned("phash", "MatchParamPredicate"))
    => /\ outcome.ret.v =
            <<"m", "a", "t", "c", "h", "_", "p", "a", "r", "a", "m", " ">>
              \o Join(TrimmedPairs(AscendingOrder(Items(raw[outcome.slot]))), <<",">>)
       /\ \A s \in Slots :
            (preds[s] # None /\ IsPermutation(Items(raw[s]), Items(raw[outcome.slot])))
              => outcome.ret.v = Text(preds[s]) /\ outcome.ret.v = Phash(preds[s])

C5_Witness ==
  /\ Returned("text", "MatchParamPredicate")
  /\ outcome.slot = "p"
  /\ raw["p"] = Tup(<< <<"a", " ", "=", "1">>, <<" ", "b", "=", "2">> >>)
  /\ raw["q"] = Tup(<< <<" ", "b", "=", "2">>, <<"a", " ", "=", "1">> >>)
  /\ outcome.ret = Str(<<"m", "a", "t", "c", "h", "_", "p", "a", "r", "a", "m", " ", "b", "=", "2", ",", "a", "=", "1">>)

(***************************************************************************)
(* C6: text() and phash() of a HeaderPredicate are 'header <name>' for a   *)
(* value without ':' and 'header <name> = <pattern>', with the pattern     *)
(* text supplied after the first ':', otherwise.                           *)
(***************************************************************************)
C6_HeaderTextShowsPattern ==
  (Returned("text", "HeaderPredicate") \/ Returned("phash", "HeaderPredicate"))
    => /\ outcome.ret.v =
            IF Contains(raw[outcome.slot].v, ":")
            THEN <<"h", "e", "a", "d", "e", "r", " ">> \o Split1(raw[outcome.slot].v, ":")[1] \o <<" ", "=", " ">>
                   \o Split1(raw[outcome.slot].v, ":")[2]
            ELSE <<"h", "e", "a", "d", "e", "r", " ">> \o raw[outcome.slot].v
       /\ \A s \in Slots :
            (preds[s] # None /\ raw[s] = raw[outcome.slot])
              => outcome.ret.v = Text(preds[s]) /\ outcome.ret.v = Phash(preds[s])

(***************************************************************************)
(* C7: a TraversePredicate applied again to an info dict it has already    *)
(* annotated returns True and leaves the info dict, match-dict included,   *)
(* as it was; applied to an info dict that has a top-level 'traverse' key  *)
(* it changes nothing and returns True.                                    *)
(***************************************************************************)
C7_TraverseIdempotent ==
  Returned("call", "TraversePredicate")
    => /\ outcome.again => (outcome.ret = Bool(TRUE) /\ info = outcome.context)
       /\ KeyTraverse \in DOMAIN outcome.context.v
            => (outcome.ret = Bool(TRUE) /\ info = outcome.context)

Annotatable(self, context) ==
  \/ KeyTraverse \in DOMAIN context.v
  \/ /\ KeyMatch \in DOMAIN context.v
     /\ ~IsRaise(tgenerate(self.tgenerate, context.v[KeyMatch].v))

OnlyTraverseEntryDiffers(before, after) ==
  \/ after = before
  \/ /\ KeyMatch \in DOMAIN before.v
     /\ DOMAIN after.v = DOMAIN before.v
     /\ \A k \in DOMAIN before.v \ {KeyMatch} : after.v[k] = before.v[k]
     /\ DOMAIN after.v[KeyMatch].v = DOMAIN before.v[KeyMatch].v \cup {KeyTraverse}
     /\ \A k \in DOMAIN before.v[KeyMatch].v \ {KeyTraverse} :
          after.v[KeyMatch].v[k] = before.v[KeyMatch].v[k]

C9_EvaluationFrame ==
  [][outcome'.op \in {"text", "phash", "call"}
       => /\ preds' = preds
          /\ \A s \in Slots :
               preds[s] # None
                 => Text(preds'[s]) = Text(preds[s]) /\ Phash(preds'[s]) = Phash(preds[s])
          /\ IF outcome'.op = "call" /\ preds[outcome'.slot].cls = "TraversePredicate"
             THEN OnlyTraverseEntryDiffers(outcome'.context, info')
             ELSE info' = info]_vars

C9_Witness ==
  /\ Returned("call", "TraversePredicate")
  /\ info # outcome.context
  /\ DOMAIN outcome.context.v = {KeyMatch, <<"r", "o", "u", "t", "e">>}
  /\ DOMAIN outcome.context.v[KeyMatch].v = {<<"a">>, KeyTraverse}

(***************************************************************************)
(* C10: phash() of a CustomPredicate depends only on the hash of its       *)
(* callable: two instances return equal phash() exactly when their         *)
(* callables have equal hash values, whatever their identity, label and    *)
(* repr, and computing it does not call the callable.                      *)
(***************************************************************************)
C10_CustomPhashFollowsHash ==
  Returned("phash", "CustomPredicate")
    => /\ \A s \in Slots :
            preds[s] # None
              => ((preds[s].func.hash = preds[outcome.slot].func.hash)
                    <=> (outcome.ret.v = Phash(preds[s])))
       /\ outcome.called = 0

C10_Witness ==
  /\ Returned("phash", "CustomPredicate")
  /\ outcome.slot = "p"
  /\ preds["q"] # None
  /\ preds["p"].func.id = "f"
  /\ preds["q"].func.id = "g"
  /\ outcome.ret.v = Phash(preds["q"])
  /\ Text(preds["p"]) # Text(preds["q"])

====
